---- MODULE Spec2Model ----
(***************************************************************************)
(* Model of main() of src/src: the fetch (extract_osm_geodata), the        *)
(* element classifier (extract_route_elements, extract_node_elements),     *)
(* the graph builder (create_route_graph, on a networkx.Graph) and the     *)
(* map renderer (create_folium_map).                                       *)
(*                                                                         *)
(* Python dicts are functions (records); a missing key is a key that is    *)
(* not in the DOMAIN.  A raised exception is recorded in exc and ends the  *)
(* run, as main() catches nothing.                                         *)
(***************************************************************************)
EXTENDS Integers, Sequences, FiniteSets, TLC

VARIABLES response, osm_data, route_elements, node_elements, G, idx, pc, exc,
          folium_map

vars == <<response, osm_data, route_elements, node_elements, G, idx, pc, exc,
          folium_map>>

(***************************************************************************)
(* Bounds of the inputs.                                                   *)
(***************************************************************************)
\* node ids (refs) are 1..MaxId
MaxId == 3
\* routes handed to create_route_graph
MaxRoutes == 2
\* members of all routes of one input, together
MaxMembers == 3
\* raw elements of one payload handed to the classifier
MaxElems == 3
\* element ids of the classifier's payload are 1..MaxElemId
MaxElemId == 2

Ids == 1..MaxId

(***************************************************************************)
(* Python helpers.                                                         *)
(***************************************************************************)
\* None
NoneValue == [NoneType |-> TRUE]

\* the empty dict {}
EmptyDict == [k \in {} |-> ""]

\* d.update(e): the keys of e are written over d
DictUpdate(d, e) ==
    [k \in (DOMAIN d) \cup (DOMAIN e) |-> IF k \in DOMAIN e THEN e[k] ELSE d[k]]

\* d.get(key, default)
DictGet(d, key, default) == IF key \in DOMAIN d THEN d[key] ELSE default

\* sub in s, for strings
StrContains(sub, s) ==
    \E k \in 0..(Len(s) - Len(sub)) : SubSeq(s, k + 1, k + Len(sub)) = sub

\* str(ref) for an integer
Str(n) == ToString(n)

(***************************************************************************)
(* networkx.Graph: the node attribute dicts and the undirected edges.  An  *)
(* edge is the set of its endpoints (one element for a self loop).         *)
(***************************************************************************)
EmptyGraph == [nodes |-> EmptyDict, edges |-> {}]

\* add_node that leaves a node that exists as it is (mutation of add_node)
add_node_keep(g, n, attr) ==
    [nodes |-> [v \in (DOMAIN g.nodes) \cup {n} |->
                   IF v \in DOMAIN g.nodes THEN g.nodes[v] ELSE attr],
     edges |-> g.edges]

\* Graph.add_node(n, **attr): creates n, or updates the attributes of n
add_node(g, n, attr) ==
    [nodes |-> [v \in (DOMAIN g.nodes) \cup {n} |->
                   IF v = n
                   THEN DictUpdate(DictGet(g.nodes, n, EmptyDict), attr)
                   ELSE g.nodes[v]],
     edges |-> g.edges]

\* Graph.add_edge(u, v): an endpoint that is no node yet is created, with
\* no attributes
add_edge(g, u, v) ==
    [nodes |-> [w \in (DOMAIN g.nodes) \cup {u, v} |->
                   DictGet(g.nodes, w, EmptyDict)],
     edges |-> g.edges \cup {{u, v}}]

\* nx.get_node_attributes(g, name)
get_node_attributes(g, name) ==
    [v \in {w \in DOMAIN g.nodes : name \in DOMAIN g.nodes[w]} |-> g.nodes[v][name]]

(***************************************************************************)
(* create_route_graph (src/src/data_processing.py).                        *)
(***************************************************************************)
DefaultColour == "#808080"

\* stop_nodes = [member for member in route['members'] if 'stop' in member['role']]
IsStopMember(member) == StrContains("stop", member.role)

StopNodes(route) == SelectSeq(route.members, IsStopMember)

\* name = node_data['tags'].get('name', str(ref))
NodeName(node_data, ref) == DictGet(node_data.tags, "name", Str(ref))

\* another default colour (mutation of RouteColour)
RouteColourBlack(route) == DictGet(route.tags, "colour", "#000000")

\* colour = route['tags'].get('colour', '#808080')
RouteColour(route) == DictGet(route.tags, "colour", DefaultColour)

\* the keyword arguments of G.add_node
NodeAttrs(node_data, ref, route) ==
    [pos    |-> <<node_data.lon, node_data.lat>>,
     name   |-> NodeName(node_data, ref),
     colour |-> RouteColour(route)]

\* node_data['tags'] raises KeyError when the node element has no tags key
TagsKeyError(node_data) == "tags" \notin DOMAIN node_data

\* the first loop of the body, from position k of stop_nodes on: the graph
\* when the loop ends, or when it raises
RECURSIVE AddStopNodes(_, _, _, _, _)
AddStopNodes(g, route, nodes, stop_nodes, k) ==
    IF k > Len(stop_nodes)
    THEN [graph |-> g, raised |-> FALSE]
    ELSE LET ref == stop_nodes[k].ref IN
         IF ref \in DOMAIN nodes
         THEN IF TagsKeyError(nodes[ref])
              THEN [graph |-> g, raised |-> TRUE]
              ELSE AddStopNodes(add_node(g, ref, NodeAttrs(nodes[ref], ref, route)),
                                route, nodes, stop_nodes, k + 1)
         ELSE AddStopNodes(g, route, nodes, stop_nodes, k + 1)

\* the second loop with range(len(stop_nodes) - 2) (mutation of AddStopEdges)
RECURSIVE AddStopEdgesShort(_, _, _)
AddStopEdgesShort(g, stop_nodes, k) ==
    IF k > Len(stop_nodes) - 2
    THEN g
    ELSE AddStopEdgesShort(add_edge(g, stop_nodes[k].ref, stop_nodes[k + 1].ref),
                           stop_nodes, k + 1)

\* the second loop closing the line into a ring (mutation of AddStopEdges)
RECURSIVE AddStopEdgesRing(_, _, _)
AddStopEdgesRing(g, stop_nodes, k) ==
    IF k > Len(stop_nodes) - 1
    THEN IF Len(stop_nodes) >= 2
         THEN add_edge(g, stop_nodes[Len(stop_nodes)].ref, stop_nodes[1].ref)
         ELSE g
    ELSE AddStopEdgesRing(add_edge(g, stop_nodes[k].ref, stop_nodes[k + 1].ref),
                          stop_nodes, k + 1)

\* the second loop of the body: for i in range(len(stop_nodes) - 1)
RECURSIVE AddStopEdges(_, _, _)
AddStopEdges(g, stop_nodes, k) ==
    IF k > Len(stop_nodes) - 1
    THEN g
    ELSE AddStopEdges(add_edge(g, stop_nodes[k].ref, stop_nodes[k + 1].ref),
                      stop_nodes, k + 1)

\* route['members'] raises KeyError when the route element has no members
\* key (an element of type node or way with a route tag)
MembersKeyError(route) == "members" \notin DOMAIN route

\* one pass of "for route in route_elements": the graph and the exception
RouteBody(g, route, nodes) ==
    IF MembersKeyError(route)
    THEN [graph |-> g, exc |-> "KeyError('members')"]
    ELSE LET stop_nodes == StopNodes(route)
             added == AddStopNodes(g, route, nodes, stop_nodes, 1)
         IN  IF added.raised
             THEN [graph |-> added.graph, exc |-> "KeyError('tags')"]
             ELSE [graph |-> AddStopEdges(added.graph, stop_nodes, 1),
                   exc |-> "none"]

(***************************************************************************)
(* create_folium_map (src/src/data_visualization.py).                      *)
(***************************************************************************)
NoMap == [built |-> FALSE]

\* sum of coordinate c (1 = lon, 2 = lat) over the positions
RECURSIVE SumCoord(_, _, _)
SumCoord(positions, S, c) ==
    IF S = {} THEN 0
    ELSE LET v == CHOOSE w \in S : TRUE
         IN  positions[v][c] + SumCoord(positions, S \ {v}, c)

\* the map built from line 23 on; a mean is kept as <<sum, count>>
FoliumMap(g) ==
    LET positions   == get_node_attributes(g, "pos")
        node_labels == get_node_attributes(g, "name")
        node_colors == get_node_attributes(g, "colour")
        n           == Cardinality(DOMAIN positions)
    IN  [built    |-> TRUE,
         location |-> << <<SumCoord(positions, DOMAIN positions, 2), n>>,
                         <<SumCoord(positions, DOMAIN positions, 1), n>> >>,
         markers  |-> [v \in DOMAIN positions |->
                          [location |-> <<positions[v][2], positions[v][1]>>,
                           color    |-> DictGet(node_colors, v, "blue"),
                           tooltip  |-> DictGet(node_labels, v, "Node " \o Str(v))]],
         lines    |-> {e \in g.edges : e \subseteq DOMAIN positions}]

\* a test for a graph without nodes (mutation of NoPositions)
NoNodes(g) == DOMAIN g.nodes = {}

\* if not positions: raise ValueError(...)
NoPositions(g) == DOMAIN get_node_attributes(g, "pos") = {}

(***************************************************************************)
(* Payloads for the graph builder: route relations, then node elements.    *)
(***************************************************************************)
Roles == {"stop", "platform"}

Colours == {"#ff0000", "#0000ff"}

StopNames == {"Zoo"}

Members == [type : {"node"}, ref : Ids, role : Roles]

RouteTags == {[route |-> "subway"]}
             \cup {[route |-> "subway", colour |-> c] : c \in Colours}

\* the relations with a route tag and k members
Relations(k) ==
    [type : {"relation"}, id : {100}, tags : RouteTags, members : [1..k -> Members]]

\* the node elements that carry a route tag: elements without members
RouteTaggedNodes ==
    {[type |-> "node", id |-> i, lon |-> 10 + i, lat |-> 50 + i,
      tags |-> [route |-> "subway"]] : i \in Ids}

\* the elements with a route tag and k members
RoutesOfLen(k) == Relations(k) \cup (IF k = 0 THEN RouteTaggedNodes ELSE {})

\* the sequences of n routes with at most budget members together
RECURSIVE RouteSeqs(_, _)
RouteSeqs(n, budget) ==
    IF n = 0
    THEN {<<>>}
    ELSE UNION { {<<r>> \o rest : r \in RoutesOfLen(k),
                                  rest \in RouteSeqs(n - 1, budget - k)}
                 : k \in 0..budget }

\* the node elements with id i: no tags key, empty tags, a name tag
NodeTagChoices == {EmptyDict} \cup {[name |-> nm] : nm \in StopNames}

NodeRecords(i) ==
    {[type |-> "node", id |-> i, lon |-> 10 + i, lat |-> 50 + i]}
    \cup {[type |-> "node", id |-> i, lon |-> 10 + i, lat |-> 50 + i, tags |-> t]
          : t \in NodeTagChoices}

\* the node elements of a payload: at most one for an id, by increasing id
RECURSIVE NodeSeqs(_)
NodeSeqs(i) ==
    IF i > MaxId
    THEN {<<>>}
    ELSE NodeSeqs(i + 1)
         \cup {<<nd>> \o rest : nd \in NodeRecords(i), rest \in NodeSeqs(i + 1)}

(***************************************************************************)
(* The element classifier (src/src/data_processing.py).                    *)
(***************************************************************************)
\* a test for tags alone (mutation of HasRouteTag)
HasTags(element) == "tags" \in DOMAIN element

\* 'tags' in element and 'route' in element['tags']
HasRouteTag(element) ==
    "tags" \in DOMAIN element /\ "route" \in DOMAIN element.tags

\* the list comprehension of extract_route_elements
extract_route_elements(data) == SelectSeq(data.elements, HasRouteTag)

\* the dict comprehension without its type filter (mutation of NodeDict)
RECURSIVE NodeDictAnyType(_, _, _)
NodeDictAnyType(d, elements, k) ==
    IF k > Len(elements)
    THEN d
    ELSE NodeDictAnyType(DictUpdate(d, [i \in {elements[k].id} |-> elements[k]]),
                         elements, k + 1)

\* the dict comprehension of extract_node_elements, from position k on: a
\* key that comes again is written over
RECURSIVE NodeDict(_, _, _)
NodeDict(d, elements, k) ==
    IF k > Len(elements)
    THEN d
    ELSE LET element == elements[k] IN
         IF element.type = "node"
         THEN NodeDict(DictUpdate(d, [i \in {element.id} |-> element]), elements, k + 1)
         ELSE NodeDict(d, elements, k + 1)

extract_node_elements(data) == NodeDict(EmptyDict, data.elements, 1)

(***************************************************************************)
(* extract_osm_geodata (src/src/data_extraction.py).  The reply of the     *)
(* server is a record: without status_code when requests.get raises,       *)
(* without json when the body of a 200 reply is no JSON.                   *)
(***************************************************************************)
\* response.raise_for_status() raises for a 4xx or 5xx status
RaisesForStatus(status) == 400 <= status /\ status < 600

\* the value returned and the exception raised
extract_osm_geodata(reply) ==
    IF "status_code" \notin DOMAIN reply
    THEN [value |-> NoneValue, exc |-> "ConnectionError"]
    ELSE IF reply.status_code = 200
         THEN IF "json" \in DOMAIN reply
              THEN [value |-> reply.json, exc |-> "none"]
              ELSE [value |-> NoneValue, exc |-> "JSONDecodeError"]
         ELSE IF RaisesForStatus(reply.status_code)
              THEN [value |-> NoneValue, exc |-> "HTTPError"]
              ELSE [value |-> NoneValue, exc |-> "none"]

\* the replies that carry no payload
FailedReplies ==
    {[error |-> "ConnectionError"], [status_code |-> 200]}
    \cup {[status_code |-> st] : st \in {204, 404, 500}}

\* a 200 reply with a JSON body
Reply(payload) == [status_code |-> 200, json |-> payload]

(***************************************************************************)
(* Payloads for the classifier: any order of nodes and relations.          *)
(***************************************************************************)
ElemIds == 1..MaxElemId

RawTagChoices == {EmptyDict, [name |-> "Zoo"], [route |-> "subway"]}

RawNodes(i) ==
    {[type |-> "node", id |-> i, lon |-> 10 + i, lat |-> 50 + i]}
    \cup {[type |-> "node", id |-> i, lon |-> 10 + i, lat |-> 50 + i, tags |-> t]
          : t \in RawTagChoices}

RawRelations(i) ==
    {[type |-> "relation", id |-> i, members |-> <<>>]}
    \cup {[type |-> "relation", id |-> i, members |-> <<>>, tags |-> t]
          : t \in RawTagChoices}

RawElements == UNION {RawNodes(i) \cup RawRelations(i) : i \in ElemIds}

(***************************************************************************)
(* main() (src/src/main.py), lines 14 to 19.                               *)
(***************************************************************************)
\* before line 14: no name of main is bound
Start ==
    /\ osm_data = NoneValue
    /\ route_elements = <<>>
    /\ node_elements = EmptyDict
    /\ G = EmptyGraph
    /\ idx = 0
    /\ pc = "fetch"
    /\ exc = "none"
    /\ folium_map = NoMap

\* the server replies with mixed elements, or fails
InitClassify ==
    /\ \/ response \in FailedReplies
       \/ response = Reply(EmptyDict)
       \/ \E n \in 0..MaxElems :
             \E es \in [1..n -> RawElements] : response = Reply([elements |-> es])
    /\ Start

\* the server replies with route elements followed by node elements, or fails
Init ==
    /\ \/ response \in FailedReplies
       \/ response = Reply(EmptyDict)
       \/ \E n \in 0..MaxRoutes :
             \E rs \in RouteSeqs(n, MaxMembers) :
                \E ns \in NodeSeqs(1) : response = Reply([elements |-> rs \o ns])
    /\ Start

\* line 14: subway_data = extract_osm_geodata(query)
Fetch ==
    /\ pc = "fetch"
    /\ LET out == extract_osm_geodata(response) IN
         /\ osm_data' = out.value
         /\ exc' = out.exc
         /\ pc' = IF out.exc = "none" THEN "extract_routes" ELSE "failed"
    /\ UNCHANGED <<response, route_elements, node_elements, G, idx, folium_map>>

\* line 15: osm_data['elements'] raises TypeError on None and KeyError on a
\* dict without that key
ExtractRoutes ==
    /\ pc = "extract_routes"
    /\ IF osm_data = NoneValue
       THEN pc' = "failed" /\ exc' = "TypeError" /\ route_elements' = route_elements
       ELSE IF "elements" \notin DOMAIN osm_data
            THEN /\ pc' = "failed"
                 /\ exc' = "KeyError('elements')"
                 /\ route_elements' = route_elements
            ELSE /\ pc' = "extract_nodes"
                 /\ exc' = exc
                 /\ route_elements' = extract_route_elements(osm_data)
    /\ UNCHANGED <<response, osm_data, node_elements, G, idx, folium_map>>

\* line 16
ExtractNodes ==
    /\ pc = "extract_nodes"
    /\ node_elements' = extract_node_elements(osm_data)
    /\ pc' = "build"
    /\ UNCHANGED <<response, osm_data, route_elements, G, idx, exc, folium_map>>

\* line 17: one pass of the loop over route_elements; a KeyError ends the run
ProcessRoute ==
    /\ pc = "build"
    /\ idx < Len(route_elements)
    /\ LET out == RouteBody(G, route_elements[idx + 1], node_elements) IN
         /\ G' = out.graph
         /\ exc' = out.exc
         /\ IF out.exc = "none"
            THEN pc' = "build" /\ idx' = idx + 1
            ELSE pc' = "failed" /\ idx' = idx
    /\ UNCHANGED <<response, osm_data, route_elements, node_elements, folium_map>>

\* line 17: return G
ReturnGraph ==
    /\ pc = "build"
    /\ idx = Len(route_elements)
    /\ pc' = "built"
    /\ UNCHANGED <<response, osm_data, route_elements, node_elements, G, idx, exc,
                   folium_map>>

\* line 19: create_folium_map(graph): the ValueError comes before the map is made
CreateFoliumMap ==
    /\ pc = "built"
    /\ IF NoPositions(G)
       THEN pc' = "failed" /\ exc' = "ValueError" /\ folium_map' = folium_map
       ELSE pc' = "done" /\ exc' = exc /\ folium_map' = FoliumMap(G)
    /\ UNCHANGED <<response, osm_data, route_elements, node_elements, G, idx>>

Next ==
    \/ Fetch
    \/ ExtractRoutes
    \/ ExtractNodes
    \/ ProcessRoute
    \/ ReturnGraph
    \/ CreateFoliumMap

Spec == Init /\ [][Next]_vars

SpecClassify == InitClassify /\ [][Next]_vars

(***************************************************************************)
(* Vocabulary of the properties.                                           *)
(***************************************************************************)
\* create_route_graph has returned its graph (a call that raised returns none)
Returned == pc \in {"built", "done"} \/ (pc = "failed" /\ exc = "ValueError")

\* create_folium_map has been called and has ended
MapCallEnded == pc = "done" \/ (pc = "failed" /\ exc = "ValueError")

Vertices == DOMAIN G.nodes

\* the refs of the stop-role members of a route, in member order
StopRefs(route) == [k \in 1..Len(StopNodes(route)) |-> StopNodes(route)[k].ref]

StopRefSet(route) == {StopRefs(route)[k] : k \in 1..Len(StopRefs(route))}

\* the pairs of refs at positions k, k + 1 of the stop subsequence
ConsecutivePairs(route) ==
    {{StopRefs(route)[k], StopRefs(route)[k + 1]} : k \in 1..(Len(StopRefs(route)) - 1)}

\* the routes (positions) with a stop-role member that references v
RoutesWithStop(v) ==
    {j \in 1..Len(route_elements) : v \in StopRefSet(route_elements[j])}

Resolvable(v) == v \in DOMAIN node_elements

LastOf(S) == CHOOSE j \in S : \A h \in S : h <= j

HasAllAttributes(v) == {"pos", "name", "colour"} \subseteq DOMAIN G.nodes[v]

(***************************************************************************)
(* C1: every vertex of the returned graph is a key of the node mapping     *)
(* that some route's stop-role member references; a stop member whose ref  *)
(* is missing from the node mapping never becomes a vertex.                *)
(***************************************************************************)
C1_VerticesAreResolvedStops ==
    Returned => \A v \in Vertices : Resolvable(v) /\ RoutesWithStop(v) # {}

(***************************************************************************)
(* C2: every vertex of the returned graph carries pos, name and colour.    *)
(***************************************************************************)
C2_EveryVertexHasAttributes ==
    Returned => \A v \in Vertices : HasAllAttributes(v)

(***************************************************************************)
(* C3: create_route_graph never raises for a missing name tag, a missing   *)
(* tags map or a missing colour tag; it returns a graph whose vertices     *)
(* have the fallbacks applied (name = str(ref), colour = #808080).         *)
(***************************************************************************)
C3_NoErrorForMissingData ==
    /\ exc # "KeyError('tags')"
    /\ Returned =>
         \A v \in Vertices :
            (Resolvable(v) /\ HasAllAttributes(v)) =>
               /\ ("tags" \notin DOMAIN node_elements[v]
                   \/ "name" \notin DOMAIN node_elements[v].tags)
                     => G.nodes[v].name = Str(v)
               /\ "colour" \notin DOMAIN route_elements[LastOf(RoutesWithStop(v))].tags
                     => G.nodes[v].colour = "#808080"

(***************************************************************************)
(* C4: for one route whose stop members are all resolvable, the returned   *)
(* graph has exactly the stop refs as vertices and exactly the consecutive *)
(* stop-ref pairs as edges (stops A, B, C give {A,B,C} and {{A,B},{B,C}}). *)
(***************************************************************************)
C4_SingleRouteGraph ==
    (/\ Returned
     /\ Len(route_elements) = 1
     /\ \A v \in StopRefSet(route_elements[1]) : Resolvable(v))
    => /\ Vertices = StopRefSet(route_elements[1])
       /\ G.edges = ConsecutivePairs(route_elements[1])

\* a returned graph of one route with three distinct resolvable stops
C4_Witness ==
    /\ Returned
    /\ Len(route_elements) = 1
    /\ Len(StopRefs(route_elements[1])) = 3
    /\ Cardinality(StopRefSet(route_elements[1])) = 3
    /\ \A v \in StopRefSet(route_elements[1]) : Resolvable(v)
    /\ Cardinality(Vertices) = 3
    /\ Cardinality(G.edges) = 2

(***************************************************************************)
(* C5: a vertex that several routes reference as a resolvable stop carries *)
(* the attributes written by the last such route in input order: its       *)
(* colour is that route's colour, never an earlier route's and no blend.   *)
(***************************************************************************)
C5_LastRouteWins ==
    Returned =>
      \A v \in Ids :
         (Resolvable(v) /\ RoutesWithStop(v) # {}) =>
            LET last == route_elements[LastOf(RoutesWithStop(v))] IN
              /\ v \in Vertices
              /\ HasAllAttributes(v)
              /\ G.nodes[v].colour =
                    (IF "colour" \in DOMAIN last.tags
                     THEN last.tags.colour ELSE "#808080")
              /\ G.nodes[v].pos = <<node_elements[v].lon, node_elements[v].lat>>
              /\ G.nodes[v].name =
                    (IF "name" \in DOMAIN node_elements[v].tags
                     THEN node_elements[v].tags.name ELSE Str(v))

\* two routes with different colour tags share a resolvable stop, and the
\* vertex has the colour of the second
C5_Witness ==
    /\ Returned
    /\ \E v \in Vertices :
          /\ Resolvable(v)
          /\ RoutesWithStop(v) = {1, 2}
          /\ "colour" \in DOMAIN route_elements[1].tags
          /\ "colour" \in DOMAIN route_elements[2].tags
          /\ route_elements[1].tags.colour # route_elements[2].tags.colour
          /\ G.nodes[v].colour = route_elements[2].tags.colour

(***************************************************************************)
(* C6: a vertex contributed by a route without a colour tag, and by no     *)
(* later route, has the colour #808080 in the returned graph.              *)
(***************************************************************************)
C6_DefaultGray ==
    Returned =>
      \A j \in 1..Len(route_elements) :
         "colour" \notin DOMAIN route_elements[j].tags =>
            \A v \in StopRefSet(route_elements[j]) :
               (Resolvable(v) /\ \A h \in RoutesWithStop(v) : h <= j) =>
                  /\ v \in Vertices
                  /\ "colour" \in DOMAIN G.nodes[v]
                  /\ G.nodes[v].colour = "#808080"

\* a route without colour, written over on one stop by a later coloured
\* route, keeps gray on its other stop
C6_Witness ==
    /\ Returned
    /\ Len(route_elements) = 2
    /\ "colour" \notin DOMAIN route_elements[1].tags
    /\ "colour" \in DOMAIN route_elements[2].tags
    /\ \E v, w \in Vertices :
          /\ Resolvable(v) /\ Resolvable(w)
          /\ RoutesWithStop(v) = {1}
          /\ RoutesWithStop(w) = {1, 2}
          /\ G.nodes[v].colour = "#808080"
          /\ G.nodes[w].colour # "#808080"

(***************************************************************************)
(* C7: extract_route_elements returns exactly the elements that have a     *)
(* tags map with a route key, in their input order; an element without     *)
(* tags is left out without an error, and no elements give no routes.      *)
(***************************************************************************)
\* the input positions of the elements with a route key under tags
RoutePositions ==
    {p \in 1..Len(osm_data.elements) :
        /\ "tags" \in DOMAIN osm_data.elements[p]
        /\ "route" \in DOMAIN osm_data.elements[p].tags}

\* the k-th smallest member of a set of positions
KthOf(S, k) == CHOOSE p \in S : Cardinality({q \in S : q <= p}) = k

\* an exception of create_route_graph or create_folium_map
RaisedAfterClassifier ==
    pc = "failed" /\ exc \in {"KeyError('members')", "KeyError('tags')", "ValueError"}

\* extract_route_elements has returned
RoutesExtracted ==
    pc \in {"extract_nodes", "build", "built", "done"} \/ RaisedAfterClassifier

\* extract_node_elements has returned
NodesExtracted == pc \in {"build", "built", "done"} \/ RaisedAfterClassifier

C7_RouteSubsequence ==
    RoutesExtracted =>
      /\ Len(route_elements) = Cardinality(RoutePositions)
      /\ \A k \in 1..Len(route_elements) :
            route_elements[k] = osm_data.elements[KthOf(RoutePositions, k)]

\* a payload with an element without tags between two route elements
C7_Witness ==
    /\ RoutesExtracted
    /\ Len(osm_data.elements) = 3
    /\ "tags" \notin DOMAIN osm_data.elements[2]
    /\ RoutePositions = {1, 3}
    /\ osm_data.elements[1] # osm_data.elements[3]
    /\ route_elements = <<osm_data.elements[1], osm_data.elements[3]>>

(***************************************************************************)
(* C8: extract_node_elements returns a mapping whose keys are exactly the  *)
(* ids of the elements of type node, each mapped to the last node element  *)
(* with that id; an element of another type with that id is never in it.   *)
(***************************************************************************)
\* the input positions of the node elements with id i
NodePositions(i) ==
    {p \in 1..Len(osm_data.elements) :
        osm_data.elements[p].type = "node" /\ osm_data.elements[p].id = i}

C8_NodeMapping ==
    NodesExtracted =>
      /\ DOMAIN node_elements = {i \in ElemIds : NodePositions(i) # {}}
      /\ \A i \in DOMAIN node_elements :
            node_elements[i] = osm_data.elements[LastOf(NodePositions(i))]

\* two different node elements with one id, then a relation with that id:
\* the second node element is the value
C8_Witness ==
    /\ NodesExtracted
    /\ Len(osm_data.elements) = 3
    /\ \E i \in ElemIds :
          /\ NodePositions(i) = {1, 2}
          /\ osm_data.elements[1] # osm_data.elements[2]
          /\ osm_data.elements[3].id = i
          /\ node_elements[i] = osm_data.elements[2]

(***************************************************************************)
(* C9: create_folium_map raises the ValueError, before a map is made, when *)
(* no vertex of the graph has a pos attribute (also when the graph has     *)
(* vertices, all without pos), and returns a map when some vertex has one. *)
(***************************************************************************)
SomeVertexHasPos == \E v \in Vertices : "pos" \in DOMAIN G.nodes[v]

C9_EmptyGraphError ==
    MapCallEnded =>
      /\ ~SomeVertexHasPos => (exc = "ValueError" /\ ~folium_map.built)
      /\ SomeVertexHasPos => (exc = "none" /\ pc = "done" /\ folium_map.built)

\* a graph whose only vertices have no pos was refused
C9_Witness ==
    /\ MapCallEnded
    /\ Vertices # {}
    /\ \A v \in Vertices : ~Resolvable(v)
    /\ ~SomeVertexHasPos
    /\ exc = "ValueError"

(***************************************************************************)
(* C10: one pass of the route loop adds at most len(stop_nodes) - 1 edges  *)
(* (none for fewer than two stops), each joining the refs at positions     *)
(* k, k + 1 of the route's stop subsequence; so every edge of the returned *)
(* graph is such a pair of some route.                                     *)
(***************************************************************************)
RoutePassEdges ==
    (/\ pc = "build"
     /\ idx < Len(route_elements)
     /\ "members" \in DOMAIN route_elements[idx + 1]) =>
       LET route == route_elements[idx + 1]
           new   == G'.edges \ G.edges
       IN  /\ G.edges \subseteq G'.edges
           /\ new \subseteq ConsecutivePairs(route)
           /\ Len(StopRefs(route)) >= 1 =>
                 Cardinality(new) <= Len(StopRefs(route)) - 1
           /\ Len(StopRefs(route)) <= 1 => new = {}

EdgesAreConsecutivePairs ==
    Returned =>
      \A e \in G.edges :
         \E j \in 1..Len(route_elements) : e \in ConsecutivePairs(route_elements[j])

C10_ConsecutiveStopEdges == [][RoutePassEdges]_vars /\ []EdgesAreConsecutivePairs

\* a route stop a, non-stop b, stop c: the edge {a, c} and no edge at b
C10_Witness ==
    /\ Returned
    /\ Len(route_elements) = 1
    /\ Len(route_elements[1].members) = 3
    /\ ~IsStopMember(route_elements[1].members[2])
    /\ LET a == route_elements[1].members[1].ref
           b == route_elements[1].members[2].ref
           c == route_elements[1].members[3].ref
       IN  Cardinality({a, b, c}) = 3 /\ G.edges = {{a, c}}


====
